---- MODULE Spec2Model ----
(***************************************************************************)
(* Model of pipeline/src/utils/cmd_executor.py: the shell-command runner   *)
(* CmdExecutor (run_cmd in call mode and normal mode, check_result,        *)
(* run_parallely_cmds), the processes it spawns and the logger it calls.   *)
(*                                                                         *)
(* Text is a sequence of one-character strings, as seen through the        *)
(* text-mode streams of subprocess (after decoding).  A python local or    *)
(* attribute that may be unbound/None is a sequence of length 0 or 1.      *)
(***************************************************************************)
EXTENDS Integers, Sequences, FiniteSets, TLC

\* ------------------------------------------------------------------ bounds

\* characters a streamed process writes in all (stdout and stderr merged)
MaxWrites == 3
\* commands in one batch of run_parallely_cmds
MaxBatch == 2
\* capacity of one OS pipe of a batch process, in characters
PipeCap == 1
\* calls of check_result a caller makes on one result
MaxChecks == 2

\* ------------------------------------------------------------- text, values

NL == "\n"
SP == " "

None == << >>
Some(x) == << x >>

\* Union[str, List[str]]: the tag says which of the two fields is the value
StrCmd(s) == [tag |-> "str", str |-> s, list |-> << >>]
ListCmd(v) == [tag |-> "list", str |-> << >>, list |-> v]

\* mutant of IsEmpty: only the empty string is taken for empty
IsEmptyStrOnly(c) == c.tag = "str" /\ c.str = << >>

\* python truthiness of a str or a list: "not cmd"
IsEmpty(c) == IF c.tag = "str" THEN c.str = << >> ELSE c.list = << >>

RECURSIVE Join(_)
\* " ".join(v)
Join(v) ==
    IF v = << >> THEN << >>
    ELSE IF Len(v) = 1 THEN v[1]
    ELSE v[1] \o << SP >> \o Join(Tail(v))

RECURSIVE SplitFrom(_, _, _)
\* shlex.split on text without quoting or escape characters: tokens are the
\* maximal runs of non-blank characters
SplitFrom(s, tok, acc) ==
    IF s = << >> THEN (IF tok = << >> THEN acc ELSE Append(acc, tok))
    ELSE IF s[1] = SP
         THEN SplitFrom(Tail(s), << >>, IF tok = << >> THEN acc ELSE Append(acc, tok))
         ELSE SplitFrom(Tail(s), Append(tok, s[1]), acc)

Split(s) == SplitFrom(s, << >>, << >>)

\* _Command.shellf
shellf(c) == IF c.tag = "list" THEN Join(c.list) ELSE c.str

\* _Command.execf
execf(c) == IF c.tag = "str" THEN Split(c.str) ELSE c.list

\* _Command(["HIDDEN"])
HiddenCommand == ListCmd(<< << "H", "I", "D", "D", "E", "N" >> >>)

\* str.replace('\n', '')
RECURSIVE StripNL(_)
StripNL(s) ==
    IF s = << >> THEN << >>
    ELSE IF s[1] = NL THEN StripNL(Tail(s))
    ELSE << s[1] >> \o StripNL(Tail(s))

HasNL(s) == \E i \in 1..Len(s) : s[i] = NL

\* index of the first newline of s (s has one)
FirstNL(s) == CHOOSE i \in 1..Len(s) : s[i] = NL /\ \A j \in 1..(i - 1) : s[j] # NL

\* ----------------------------------------------------------- input domains

RawCmds ==
    { StrCmd(<< >>),
      ListCmd(<< >>),
      StrCmd(<< "a", SP, "b" >>),
      ListCmd(<< << "a" >>, << "b" >> >>) }

Stdins == { None, Some(<< "a" >>) }

ExitCodes == { 0, 7 }

StreamChars == { "a", NL }

\* what a process run in normal mode leaves on one stream
Texts == { << >>, << "a", NL >>, << "b" >> }

\* ------------------------------------------------------------------- state

VARIABLES
    pc,         \* position of run_cmd
    args,       \* arguments of the run_cmd call
    command,    \* local "command" of run_cmd (None until prepared)
    answer,     \* local "answer" of run_cmd (None while unbound)
    err,        \* exception caught by "except Exception as err"
    outcome,    \* how run_cmd ended: returned value or raised exception
    log,        \* calls received by the logger, in order
    spawned,    \* processes spawned by the call
    created,    \* CmdExecutorAnswerResultError objects constructed
    proc,       \* the process of call mode: state, exit status, output
    returncode, \* proc.returncode as the executor sees it
    buf,        \* text read from the pipe and not yet returned by a read
    out,        \* local "out" of _call
    ppc,        \* position of run_parallely_cmds
    cmd_list,   \* its argument, then the prepared commands
    procs,      \* _proc_list: the processes of the batch, in launch order
    idx,        \* index in _proc_list of the wait loop
    results,    \* local "results"
    poutcome,   \* how run_parallely_cmds ended
    checked     \* what the caller's calls of check_result raised, in order

runVars == << pc, args, command, answer, err, outcome, log, spawned, created >>
procVars == << proc, returncode, buf, out >>
parVars == << ppc, cmd_list, procs, idx, results, poutcome >>
callerVars == << checked >>
vars == << pc, args, command, answer, err, outcome, log, spawned, created,
           proc, returncode, buf, out,
           ppc, cmd_list, procs, idx, results, poutcome, checked >>

\* ------------------------------------------------------------ data classes

\* CmdExecutorAnswer(exit_code, command, stdout="", stderr="")
CmdExecutorAnswer(exit_code, cmd, stdout, stderr) ==
    [exit_code |-> exit_code, command |-> cmd, stdout |-> stdout, stderr |-> stderr]

\* an exception other than CmdExecutorAnswerResultError
Exc(type) == [type |-> type, info |-> None, cause |-> ""]

\* CmdExecutorAnswerResultError(answer), raised "from" cause ("" if none)
CmdExecutorAnswerResultError(a, cause) ==
    [type |-> "CmdExecutorAnswerResultError",
     info |-> Some([exit_code |-> a.exit_code, command |-> a.command,
                    stderr |-> a.stderr, stdout |-> a.stdout, answer |-> a]),
     cause |-> cause]

NoOutcome == [kind |-> "none", value |-> None, exc |-> None]
Returned(a) == [kind |-> "returned", value |-> Some(a), exc |-> None]
Raised(e) == [kind |-> "raised", value |-> None, exc |-> Some(e)]

\* one logger call: the level, which message it is, and the command and the
\* texts the message shows
LogEntry(level, tag, cmdv, text, more) ==
    [level |-> level, tag |-> tag, cmd |-> cmdv, text |-> text, more |-> more]

\* a process: what it was spawned with, whether it runs, its exit status, all
\* that has been written to its stdout (in call mode, stdout and stderr merged)
\* and to a separate stderr, what of its stdout is still in the OS pipe, and
\* whether the write end of that pipe is still open (held by the process or by
\* a descendant that inherited it)
NoProc ==
    [state |-> "none", argv |-> << >>, shell |-> FALSE, exitcode |-> 0,
     written |-> << >>, errwritten |-> << >>, pipe |-> << >>, open |-> FALSE]

NoArgs ==
    [cmd |-> StrCmd(<< >>), stdin |-> None, call |-> FALSE, hidden_command |-> FALSE,
     check_result |-> FALSE, call_log |-> TRUE]

Init ==
    /\ pc = "idle"
    /\ args = NoArgs
    /\ command = None
    /\ answer = None
    /\ err = None
    /\ outcome = NoOutcome
    /\ log = << >>
    /\ spawned = 0
    /\ created = 0
    /\ proc = NoProc
    /\ returncode = None
    /\ buf = << >>
    /\ out = << >>
    /\ ppc = "idle"
    /\ cmd_list = << >>
    /\ procs = << >>
    /\ idx = 1
    /\ results = << >>
    /\ poutcome = [kind |-> "none", exc |-> None]
    /\ checked = << >>

\* ------------------------------------------------------------------ run_cmd

\* the caller calls run_cmd(cmd, stdin, call, hidden_command, check_result, call_log)
RunCmd(c, i, cl, h, cr, lg) ==
    /\ pc = "idle"
    /\ pc' = "prepare"
    /\ args' = [cmd |-> c, stdin |-> i, call |-> cl, hidden_command |-> h,
                check_result |-> cr, call_log |-> lg]
    /\ UNCHANGED << command, answer, err, outcome, log, spawned, created >>
    /\ UNCHANGED procVars
    /\ UNCHANGED parVars
    /\ UNCHANGED callerVars

\* command = CmdExecutor._prepare_command(cmd), outside the try block
PrepareCommand ==
    /\ pc = "prepare"
    /\ IF IsEmpty(args.cmd)
       THEN /\ outcome' = Raised(Exc("ValueError"))
            /\ pc' = "done"
            /\ UNCHANGED command
       ELSE /\ command' = Some(args.cmd)
            /\ pc' = "log_command"
            /\ UNCHANGED outcome
    /\ UNCHANGED << args, answer, err, log, spawned, created >>
    /\ UNCHANGED procVars
    /\ UNCHANGED parVars
    /\ UNCHANGED callerVars

\* try: if not hidden_command: logger.info(f"Run command: {command.execf}.")
LogCommand ==
    /\ pc = "log_command"
    /\ log' = IF args.hidden_command THEN log
              ELSE Append(log, LogEntry("info", "Run command",
                                        Some(ListCmd(execf(command[1]))), << >>, << >>))
    /\ pc' = "invoke"
    /\ UNCHANGED << args, command, answer, err, outcome, spawned, created >>
    /\ UNCHANGED procVars
    /\ UNCHANGED parVars
    /\ UNCHANGED callerVars

\* --------------------------------------------------- call mode (streamed)

\* _invoke_call: logger.info("Call mode."), then _call(cmd.shellf, call_log)
InvokeCall ==
    /\ pc = "invoke"
    /\ args.call
    /\ log' = Append(log, LogEntry("info", "Call mode.", None, << >>, << >>))
    /\ pc' = "popen"
    /\ UNCHANGED << args, command, answer, err, outcome, spawned, created >>
    /\ UNCHANGED procVars
    /\ UNCHANGED parVars
    /\ UNCHANGED callerVars

\* _call: proc = subprocess.Popen(cmd, stdout=PIPE, stderr=STDOUT, shell=True);
\* out = "".  The OS may refuse to spawn (OSError).
Popen(ok) ==
    /\ pc = "popen"
    /\ IF ok
       THEN /\ proc' = [NoProc EXCEPT !.state = "running",
                                      !.argv = << shellf(command[1]) >>,
                                      !.shell = TRUE,
                                      !.open = TRUE]
            /\ spawned' = spawned + 1
            /\ out' = << >>
            /\ pc' = "loop"
            /\ UNCHANGED err
       ELSE /\ err' = Some(Exc("OSError"))
            /\ pc' = "except"
            /\ UNCHANGED << proc, spawned, out >>
    /\ UNCHANGED << args, command, answer, outcome, log, created, returncode, buf >>
    /\ UNCHANGED parVars
    /\ UNCHANGED callerVars

\* the spawned process, or a descendant holding its output, writes one
\* character to the merged stdout/stderr
ProcWrite(c) ==
    /\ proc.open
    /\ Len(proc.written) < MaxWrites
    /\ proc' = [proc EXCEPT !.written = Append(@, c), !.pipe = Append(@, c)]
    /\ UNCHANGED runVars
    /\ UNCHANGED << returncode, buf, out >>
    /\ UNCHANGED parVars
    /\ UNCHANGED callerVars

\* the spawned process (with shell=True, the shell) exits with status code;
\* its end of the pipe is closed unless a descendant it started (keep) still
\* holds it
ProcExit(code, keep) ==
    /\ proc.state = "running"
    /\ proc' = [proc EXCEPT !.state = "exited", !.exitcode = code,
                            !.open = proc.open /\ keep]
    /\ UNCHANGED runVars
    /\ UNCHANGED << returncode, buf, out >>
    /\ UNCHANGED parVars
    /\ UNCHANGED callerVars

\* the last holder of the write end closes it: the running process closes its
\* output, or the descendant that kept it exits
CloseStdout ==
    /\ proc.open
    /\ proc' = [proc EXCEPT !.open = FALSE]
    /\ UNCHANGED runVars
    /\ UNCHANGED << returncode, buf, out >>
    /\ UNCHANGED parVars
    /\ UNCHANGED callerVars

\* select.select([proc.stdout], [], [], 0.1): the descriptor is readable when
\* the pipe holds data or is at end of file
Ready == proc.pipe # << >> \/ ~proc.open

\* mutant of WhileSelect: the loop also ends at end of file
WhileSelectUntilEof ==
    /\ pc = "loop"
    /\ pc' = IF returncode # None \/ (proc.pipe = << >> /\ ~proc.open) THEN "drain"
             ELSE IF Ready THEN "readline" ELSE "poll"
    /\ UNCHANGED << args, command, answer, err, outcome, log, spawned, created >>
    /\ UNCHANGED procVars
    /\ UNCHANGED parVars
    /\ UNCHANGED callerVars

\* while proc.returncode is None: ready_to_read = select(...); if ready_to_read:
WhileSelect ==
    /\ pc = "loop"
    /\ pc' = IF returncode # None THEN "drain"
             ELSE IF Ready THEN "readline" ELSE "poll"
    /\ UNCHANGED << args, command, answer, err, outcome, log, spawned, created >>
    /\ UNCHANGED procVars
    /\ UNCHANGED parVars
    /\ UNCHANGED callerVars

\* proc.stdout.readline() has to fetch from the pipe: it takes what is there
ReadlineFill ==
    /\ pc = "readline"
    /\ ~HasNL(buf)
    /\ proc.pipe # << >>
    /\ buf' = buf \o proc.pipe
    /\ proc' = [proc EXCEPT !.pipe = << >>]
    /\ UNCHANGED runVars
    /\ UNCHANGED << returncode, out >>
    /\ UNCHANGED parVars
    /\ UNCHANGED callerVars

\* the line readline() returns: up to the first newline, or at end of file
\* whatever is left
ReadlineResult == IF HasNL(buf) THEN SubSeq(buf, 1, FirstNL(buf)) ELSE buf

\* mutant of Readline: the line is logged whatever call_log says
ReadlineLogAlways ==
    /\ pc = "readline"
    /\ HasNL(buf) \/ (proc.pipe = << >> /\ ~proc.open)
    /\ LET out_line == ReadlineResult
       IN /\ buf' = SubSeq(buf, Len(out_line) + 1, Len(buf))
          /\ out' = out \o out_line
          /\ log' = IF out_line # << >>
                    THEN Append(log, LogEntry("info", "line", None,
                                              StripNL(out_line), << >>))
                    ELSE log
    /\ pc' = "poll"
    /\ UNCHANGED << args, command, answer, err, outcome, spawned, created >>
    /\ UNCHANGED << proc, returncode >>
    /\ UNCHANGED parVars
    /\ UNCHANGED callerVars

\* out_line = proc.stdout.readline(); if out_line: out += out_line;
\* if call_log: logger.info(out_line.replace('\n', ''))
\* (blocks while no full line is buffered and the pipe is empty and still open)
Readline ==
    /\ pc = "readline"
    /\ HasNL(buf) \/ (proc.pipe = << >> /\ ~proc.open)
    /\ LET out_line == ReadlineResult
       IN /\ buf' = SubSeq(buf, Len(out_line) + 1, Len(buf))
          /\ out' = out \o out_line
          /\ log' = IF out_line # << >> /\ args.call_log
                    THEN Append(log, LogEntry("info", "line", None,
                                              StripNL(out_line), << >>))
                    ELSE log
    /\ pc' = "poll"
    /\ UNCHANGED << args, command, answer, err, outcome, spawned, created >>
    /\ UNCHANGED << proc, returncode >>
    /\ UNCHANGED parVars
    /\ UNCHANGED callerVars

\* proc.poll(): sets proc.returncode once the process has exited
Poll ==
    /\ pc = "poll"
    /\ returncode' = IF proc.state = "exited" THEN Some(proc.exitcode) ELSE None
    /\ pc' = "loop"
    /\ UNCHANGED << args, command, answer, err, outcome, log, spawned, created >>
    /\ UNCHANGED << proc, buf, out >>
    /\ UNCHANGED parVars
    /\ UNCHANGED callerVars

\* mutant of Drain: the final read takes what is in the pipe and leaves what
\* an earlier readline had already buffered
DrainPipeOnly ==
    /\ pc = "drain"
    /\ ~proc.open
    /\ LET remaining_output == proc.pipe
           result == [returncode |-> returncode[1], stdout |-> out \o remaining_output]
       IN /\ out' = result.stdout
          /\ log' = IF remaining_output # << >> /\ args.call_log
                    THEN Append(log, LogEntry("info", "remaining", None,
                                              remaining_output, << >>))
                    ELSE log
          /\ answer' = Some(CmdExecutorAnswer(result.returncode, command[1],
                                              result.stdout, << >>))
    /\ buf' = << >>
    /\ proc' = [proc EXCEPT !.pipe = << >>]
    /\ pc' = "validate"
    /\ UNCHANGED << args, command, err, outcome, spawned, created, returncode >>
    /\ UNCHANGED parVars
    /\ UNCHANGED callerVars

\* remaining_output = proc.stdout.read() -- blocks until end of file, that is
\* until the write end is closed; if remaining_output: out += ...;
\* if call_log: logger.info(remaining_output); return _CallAnswer(...), and
\* _invoke_call returns CmdExecutorAnswer(result.returncode, cmd, result.stdout)
Drain ==
    /\ pc = "drain"
    /\ ~proc.open
    /\ LET remaining_output == buf \o proc.pipe
           result == [returncode |-> returncode[1], stdout |-> out \o remaining_output]
       IN /\ out' = result.stdout
          /\ log' = IF remaining_output # << >> /\ args.call_log
                    THEN Append(log, LogEntry("info", "remaining", None,
                                              remaining_output, << >>))
                    ELSE log
          /\ answer' = Some(CmdExecutorAnswer(result.returncode, command[1],
                                              result.stdout, << >>))
    /\ buf' = << >>
    /\ proc' = [proc EXCEPT !.pipe = << >>]
    /\ pc' = "validate"
    /\ UNCHANGED << args, command, err, outcome, spawned, created, returncode >>
    /\ UNCHANGED parVars
    /\ UNCHANGED callerVars

\* ------------------------------------------------------ normal mode (direct)

\* _invoke_run: logger.info("Normal mode."); result = subprocess.run(cmd.execf,
\* stdout=PIPE, stderr=PIPE, input=stdin); the call blocks until the process
\* has exited with status code, having written so and se.  The OS may refuse
\* to spawn (OSError, e.g. no such file).
InvokeRun(ok, code, so, se) ==
    /\ pc = "invoke"
    /\ ~args.call
    /\ log' = Append(log, LogEntry("info", "Normal mode.", None, << >>, << >>))
    /\ IF ok
       THEN /\ proc' = [NoProc EXCEPT !.state = "exited",
                                      !.argv = execf(command[1]),
                                      !.exitcode = code,
                                      !.written = so,
                                      !.errwritten = se]
            /\ spawned' = spawned + 1
            /\ answer' = Some(CmdExecutorAnswer(code, command[1], so, se))
            /\ pc' = "validate"
            /\ UNCHANGED err
       ELSE /\ err' = Some(Exc("OSError"))
            /\ pc' = "except"
            /\ UNCHANGED << proc, spawned, answer >>
    /\ UNCHANGED << args, command, outcome, created, returncode, buf, out >>
    /\ UNCHANGED parVars
    /\ UNCHANGED callerVars

\* -------------------------------------------------------------- validation

\* mutant of PrepareCheckResultAnswer: the command is kept
PrepareCheckResultAnswerKeepCommand(a, hidden) ==
    IF hidden
    THEN CmdExecutorAnswer(a.exit_code, a.command, a.stdout, a.stdout)
    ELSE a

\* mutant of PrepareCheckResultAnswer: stderr is kept
PrepareCheckResultAnswerKeepStderr(a, hidden) ==
    IF hidden
    THEN CmdExecutorAnswer(a.exit_code, HiddenCommand, a.stdout, a.stderr)
    ELSE a

\* CmdExecutor._prepare_check_result_answer(answer, hidden_command)
PrepareCheckResultAnswer(a, hidden) ==
    IF hidden
    THEN CmdExecutorAnswer(a.exit_code, HiddenCommand, a.stdout, a.stdout)
    ELSE a

\* whether x.__dict__ exists: it does for a _Command, not for a plain list
HasDict(x) == x.tag \in { "str", "list" }

\* the two logger.debug calls of check_result: answer.__dict__ (a _Command
\* shows as an object, not as text; a plain list shows its items) and
\* answer.command.__dict__, which is not reached when the attribute is missing
CheckResultLog(a) ==
    IF HasDict(a.command)
    THEN << LogEntry("debug", "answer", None, a.stdout, a.stderr),
            LogEntry("debug", "answer.command", Some(a.command), << >>, << >>) >>
    ELSE << LogEntry("debug", "answer", Some(a.command), a.stdout, a.stderr) >>

\* mutant of CheckResult: the exit code is never looked at
CheckResultNever(a) == None

\* CmdExecutor.check_result(answer): the exception it raises, if any:
\* AttributeError from answer.command.__dict__ of the second logger.debug, or
\* "if answer.exit_code: raise CmdExecutorAnswerResultError(answer)"
CheckResult(a) ==
    IF ~HasDict(a.command) THEN Some(Exc("AttributeError"))
    ELSE IF a.exit_code # 0 THEN Some(CmdExecutorAnswerResultError(a, ""))
    ELSE None

\* mutant of Validate: the result is checked whatever check_result says
ValidateAlways ==
    /\ pc = "validate"
    /\ IF TRUE
       THEN LET a == PrepareCheckResultAnswer(answer[1], args.hidden_command)
                raised == CheckResult(a)
            IN /\ answer' = Some(a)
               /\ log' = log \o CheckResultLog(a)
               /\ IF raised # None
                  THEN /\ err' = raised
                       /\ created' = created + 1
                       /\ pc' = "except"
                  ELSE /\ pc' = "return"
                       /\ UNCHANGED << err, created >>
       ELSE /\ pc' = "return"
            /\ UNCHANGED << answer, log, err, created >>
    /\ UNCHANGED << args, command, outcome, spawned >>
    /\ UNCHANGED procVars
    /\ UNCHANGED parVars
    /\ UNCHANGED callerVars

\* if check_result: answer = _prepare_check_result_answer(answer, hidden_command);
\* CmdExecutor.check_result(answer)
Validate ==
    /\ pc = "validate"
    /\ IF args.check_result
       THEN LET a == PrepareCheckResultAnswer(answer[1], args.hidden_command)
                raised == CheckResult(a)
            IN /\ answer' = Some(a)
               /\ log' = log \o CheckResultLog(a)
               /\ IF raised # None
                  THEN /\ err' = raised
                       /\ created' = created + 1
                       /\ pc' = "except"
                  ELSE /\ pc' = "return"
                       /\ UNCHANGED << err, created >>
       ELSE /\ pc' = "return"
            /\ UNCHANGED << answer, log, err, created >>
    /\ UNCHANGED << args, command, outcome, spawned >>
    /\ UNCHANGED procVars
    /\ UNCHANGED parVars
    /\ UNCHANGED callerVars

\* the exception "raise CmdExecutorAnswerResultError(answer) from err" raises:
\* reading the local "answer" while it is unbound raises UnboundLocalError
ReRaise(ans, e) ==
    IF ans = None THEN Exc("UnboundLocalError")
    ELSE CmdExecutorAnswerResultError(ans[1], e.type)

\* except Exception as err: if check_result: raise
\* CmdExecutorAnswerResultError(answer) from err
Except ==
    /\ pc = "except"
    /\ IF args.check_result
       THEN /\ outcome' = Raised(ReRaise(answer, err[1]))
            /\ created' = IF answer = None THEN created ELSE created + 1
            /\ pc' = "done"
       ELSE /\ pc' = "return"
            /\ UNCHANGED << outcome, created >>
    /\ UNCHANGED << args, command, answer, err, log, spawned >>
    /\ UNCHANGED procVars
    /\ UNCHANGED parVars
    /\ UNCHANGED callerVars

\* how "return answer" ends the call: the local may be unbound
ReturnAnswer(ans) ==
    IF ans = None THEN Raised(Exc("UnboundLocalError")) ELSE Returned(ans[1])

\* return answer
Return ==
    /\ pc = "return"
    /\ outcome' = ReturnAnswer(answer)
    /\ pc' = "done"
    /\ UNCHANGED << args, command, answer, err, log, spawned, created >>
    /\ UNCHANGED procVars
    /\ UNCHANGED parVars
    /\ UNCHANGED callerVars

\* ------------------------------------------------------------ specification

NextRun ==
    \/ \E c \in RawCmds, i \in Stdins, cl \in BOOLEAN, h \in BOOLEAN,
          cr \in BOOLEAN, lg \in BOOLEAN : RunCmd(c, i, cl, h, cr, lg)
    \/ PrepareCommand
    \/ LogCommand
    \/ InvokeCall
    \/ \E ok \in BOOLEAN : Popen(ok)
    \/ \E c \in StreamChars : ProcWrite(c)
    \/ \E code \in ExitCodes, keep \in BOOLEAN : ProcExit(code, keep)
    \/ CloseStdout
    \/ WhileSelect
    \/ ReadlineFill
    \/ Readline
    \/ Poll
    \/ Drain
    \/ \E ok \in BOOLEAN, code \in ExitCodes, so \in Texts, se \in Texts :
          InvokeRun(ok, code, so, se)
    \/ Validate
    \/ Except
    \/ Return

SpecRun == Init /\ [][NextRun]_vars

\* ------------------------------------------------------------------ run_cmd:
\* properties.  "The process" of a call is proc; it was spawned and has exited
\* iff proc.state = "exited".

Done == pc = "done"
ProcessExited == proc.state = "exited"
InvocationFailed == err # None /\ err[1].type = "OSError"
RaisedType(t) == outcome.kind = "raised" /\ outcome.exc[1].type = t
RaisedExecutionError == RaisedType("CmdExecutorAnswerResultError")
EmptyCmds == { StrCmd(<< >>), ListCmd(<< >>) }

\* the result a finished call produced: the one it returned, or the one inside
\* the CmdExecutorAnswerResultError it raised
Produced ==
    IF outcome.kind = "returned" THEN outcome.value
    ELSE IF RaisedExecutionError THEN Some(outcome.exc[1].info[1].answer)
    ELSE None

\* C1: a call with check_result=True whose process exited with a non-zero code
\* c, in call mode or normal mode, ends by raising CmdExecutorAnswerResultError
\* whose exit_code is c and whose stdout, stderr and command are those of the
\* answer it wraps.
C1_NonZeroExitRaises ==
    (Done /\ args.check_result /\ ProcessExited /\ proc.exitcode # 0) =>
        /\ RaisedExecutionError
        /\ LET e == outcome.exc[1].info[1]
           IN /\ e.exit_code = proc.exitcode
              /\ e.answer = answer[1]
              /\ e.exit_code = e.answer.exit_code
              /\ e.stdout = e.answer.stdout
              /\ e.stderr = e.answer.stderr
              /\ e.command = e.answer.command

C1_Witness ==
    /\ Done /\ args.check_result /\ args.call /\ ProcessExited
    /\ proc.exitcode = 7 /\ proc.written # << >>
    /\ RaisedExecutionError

\* C2 (as claimed): when the invocation itself fails (the process cannot be
\* spawned) and check_result is True, the call raises
\* CmdExecutorAnswerResultError chained from the fault, and nothing else.
C2_InvocationFaultRaisesExecutionError ==
    (Done /\ args.check_result /\ InvocationFailed) =>
        /\ RaisedExecutionError
        /\ outcome.exc[1].cause = "OSError"

\* C3 (as claimed): when the invocation itself fails and check_result is False,
\* the failure is suppressed: the call raises nothing and returns no result.
C3_InvocationFaultSuppressed ==
    (Done /\ ~args.check_result /\ InvocationFailed) =>
        /\ outcome.kind # "raised"
        /\ outcome.value = None

\* C4: a call with check_result=False whose process was spawned and exited with
\* code c (zero or not) returns an answer with exit_code = c; a
\* CmdExecutorAnswerResultError is constructed or raised only in calls with
\* check_result=True.
C4_UnvalidatedReturnsExitCode ==
    /\ (Done /\ ~args.check_result /\ ProcessExited) =>
           /\ outcome.kind = "returned"
           /\ outcome.value[1].exit_code = proc.exitcode
    /\ (RaisedExecutionError \/ created > 0) => args.check_result

C4_Witness ==
    /\ Done /\ ~args.check_result /\ ProcessExited /\ proc.exitcode = 7
    /\ outcome.kind = "returned"

\* C5: a call with an empty command (empty string or empty list) raises
\* ValueError whatever the flags are, before any logger call and before any
\* process is spawned, and the error reaches the caller as it is.
C5_EmptyCommandRaisesValueError ==
    (args.cmd \in EmptyCmds /\ pc \notin { "idle", "prepare" }) =>
        /\ Done
        /\ outcome = Raised(Exc("ValueError"))
        /\ log = << >>
        /\ spawned = 0
        /\ proc.state = "none"

C5_Witness ==
    /\ Done /\ args.cmd = ListCmd(<< >>)
    /\ args.call /\ args.hidden_command /\ args.check_result /\ ~args.call_log
    /\ RaisedType("ValueError")

C10_RedactedWheneverHidden ==
    (Done /\ args.hidden_command /\ Produced # None) =>
        /\ Produced[1].command = HiddenCommand
        /\ Produced[1].stderr = Produced[1].stdout

\* C10 (amended): when hidden_command and check_result are both set, in both
\* modes, the result the call produces (returned, or wrapped in the error) has
\* the placeholder command, the captured stdout, and stderr equal to that
\* stdout; with check_result unset the result is not redacted.
C10_RedactedWhenHiddenAndChecked ==
    (Done /\ args.hidden_command /\ ProcessExited) =>
        /\ Produced # None
        /\ Produced[1].stdout = proc.written
        /\ IF args.check_result
           THEN /\ Produced[1].command = HiddenCommand
                /\ Produced[1].stderr = proc.written
           ELSE /\ Produced[1].command = args.cmd
                /\ Produced[1].stderr = proc.errwritten

C10_Witness ==
    /\ Done /\ args.hidden_command /\ args.check_result /\ ~args.call
    /\ outcome.kind = "returned"
    /\ proc.written # proc.errwritten
    /\ outcome.value[1].command = HiddenCommand
    /\ outcome.value[1].stderr = proc.written

\* ------------------------------------------------------- run_parallely_cmds

\* a plain list where a _Command is expected (Popen.args)
PlainList(v) == [tag |-> "plain", str |-> << >>, list |-> v]

\* CmdExecutorParallelAnswer(pid, result)
CmdExecutorParallelAnswer(pid, result) == [pid |-> pid, result |-> result]

\* what a process of a batch does: the text it writes to its stdout and to its
\* stderr, and then the status it exits with.  The last one writes more than a
\* pipe holds.
Programs ==
    { [code |-> 0, out |-> << "a" >>, err |-> << >>],
      [code |-> 7, out |-> << >>, err |-> << "b" >>],
      [code |-> 0, out |-> [i \in 1..(PipeCap + 1) |-> "a"], err |-> << >>] }

\* process identifiers the OS may assign
Pids == 101..(101 + MaxBatch)

\* the batches a caller may pass
Batches == UNION { [1..n -> RawCmds] : n \in 0..MaxBatch }

PReturned == [kind |-> "returned", exc |-> None]
PRaised(e) == [kind |-> "raised", exc |-> Some(e)]

\* the caller calls run_parallely_cmds(cmd_list); results = []
RunParallelyCmds(cl) ==
    /\ ppc = "idle"
    /\ ppc' = "prepare"
    /\ cmd_list' = cl
    /\ results' = << >>
    /\ UNCHANGED << procs, idx, poutcome, log, spawned >>
    /\ UNCHANGED << pc, args, command, answer, err, outcome, created >>
    /\ UNCHANGED procVars
    /\ UNCHANGED callerVars

\* mutant of AnyEmpty: only the first command is looked at
FirstEmpty(cl) == cl # << >> /\ IsEmpty(cl[1])

\* whether some _prepare_command(cmd) of the comprehension raises
AnyEmpty(cl) == \E i \in 1..Len(cl) : IsEmpty(cl[i])

\* cmd_list = [CmdExecutor._prepare_command(cmd) for cmd in cmd_list]
ParPrepare ==
    /\ ppc = "prepare"
    /\ IF AnyEmpty(cmd_list)
       THEN /\ poutcome' = PRaised(Exc("ValueError"))
            /\ ppc' = "done"
       ELSE /\ ppc' = "log"
            /\ UNCHANGED poutcome
    /\ UNCHANGED << cmd_list, procs, idx, results, log, spawned >>
    /\ UNCHANGED << pc, args, command, answer, err, outcome, created >>
    /\ UNCHANGED procVars
    /\ UNCHANGED callerVars

\* for cmd in cmd_list: logger.info(f"Run parallell process with command: ...")
ParLog ==
    /\ ppc = "log"
    /\ log' = log \o [i \in 1..Len(cmd_list) |->
                        LogEntry("info", "Run parallell process",
                                 Some(ListCmd(execf(cmd_list[i]))), << >>, << >>)]
    /\ ppc' = IF cmd_list = << >> THEN "collect" ELSE "launch"
    /\ UNCHANGED << cmd_list, procs, idx, results, poutcome, spawned >>
    /\ UNCHANGED << pc, args, command, answer, err, outcome, created >>
    /\ UNCHANGED procVars
    /\ UNCHANGED callerVars

\* mutant of ParPopen: the wait loop starts after the first launch
ParPopenThenWait(ok, pid, prog) ==
    /\ ppc = "launch"
    /\ \A j \in 1..Len(procs) : procs[j].pid # pid
    /\ IF ok
       THEN /\ procs' = Append(procs,
                  [pid |-> pid, argv |-> execf(cmd_list[Len(procs) + 1]),
                   state |-> "running", code |-> prog.code, returncode |-> None,
                   rank |-> 0,
                   todo_out |-> prog.out, todo_err |-> prog.err,
                   out_pipe |-> << >>, err_pipe |-> << >>,
                   out_written |-> << >>, err_written |-> << >>])
            /\ spawned' = spawned + 1
            /\ ppc' = "collect"
            /\ UNCHANGED poutcome
       ELSE /\ poutcome' = PRaised(Exc("OSError"))
            /\ ppc' = "done"
            /\ UNCHANGED << procs, spawned >>
    /\ UNCHANGED << cmd_list, idx, results, log >>
    /\ UNCHANGED << pc, args, command, answer, err, outcome, created >>
    /\ UNCHANGED procVars
    /\ UNCHANGED callerVars

\* the next subprocess.Popen(cmd.execf, stdout=PIPE, stderr=PIPE) of the
\* comprehension building _proc_list: the OS assigns a free pid, or refuses to
\* spawn (OSError, which leaves run_parallely_cmds)
ParPopen(ok, pid, prog) ==
    /\ ppc = "launch"
    /\ \A j \in 1..Len(procs) : procs[j].pid # pid
    /\ IF ok
       THEN /\ procs' = Append(procs,
                  [pid |-> pid, argv |-> execf(cmd_list[Len(procs) + 1]),
                   state |-> "running", code |-> prog.code, returncode |-> None,
                   rank |-> 0,
                   todo_out |-> prog.out, todo_err |-> prog.err,
                   out_pipe |-> << >>, err_pipe |-> << >>,
                   out_written |-> << >>, err_written |-> << >>])
            /\ spawned' = spawned + 1
            /\ ppc' = IF Len(procs) + 1 = Len(cmd_list) THEN "collect" ELSE "launch"
            /\ UNCHANGED poutcome
       ELSE /\ poutcome' = PRaised(Exc("OSError"))
            /\ ppc' = "done"
            /\ UNCHANGED << procs, spawned >>
    /\ UNCHANGED << cmd_list, idx, results, log >>
    /\ UNCHANGED << pc, args, command, answer, err, outcome, created >>
    /\ UNCHANGED procVars
    /\ UNCHANGED callerVars

\* process j of the batch writes the next character of its stdout; the write
\* blocks while the pipe is full
BatchWriteOut(j) ==
    /\ j \in 1..Len(procs)
    /\ procs[j].state = "running"
    /\ procs[j].todo_out # << >>
    /\ Len(procs[j].out_pipe) < PipeCap
    /\ procs' = [procs EXCEPT ![j].todo_out = Tail(@),
                              ![j].out_pipe = Append(@, procs[j].todo_out[1]),
                              ![j].out_written = Append(@, procs[j].todo_out[1])]
    /\ UNCHANGED << ppc, cmd_list, idx, results, poutcome, log, spawned >>
    /\ UNCHANGED << pc, args, command, answer, err, outcome, created >>
    /\ UNCHANGED procVars
    /\ UNCHANGED callerVars

\* process j of the batch writes the next character of its stderr
BatchWriteErr(j) ==
    /\ j \in 1..Len(procs)
    /\ procs[j].state = "running"
    /\ procs[j].todo_err # << >>
    /\ Len(procs[j].err_pipe) < PipeCap
    /\ procs' = [procs EXCEPT ![j].todo_err = Tail(@),
                              ![j].err_pipe = Append(@, procs[j].todo_err[1]),
                              ![j].err_written = Append(@, procs[j].todo_err[1])]
    /\ UNCHANGED << ppc, cmd_list, idx, results, poutcome, log, spawned >>
    /\ UNCHANGED << pc, args, command, answer, err, outcome, created >>
    /\ UNCHANGED procVars
    /\ UNCHANGED callerVars

\* process j of the batch has written all it had to and exits; rank records
\* the order of completion
BatchExit(j) ==
    /\ j \in 1..Len(procs)
    /\ procs[j].state = "running"
    /\ procs[j].todo_out = << >> /\ procs[j].todo_err = << >>
    /\ procs' = [procs EXCEPT ![j].state = "exited",
                              ![j].rank = 1 + Cardinality({ k \in 1..Len(procs) :
                                                  procs[k].state = "exited" })]
    /\ UNCHANGED << ppc, cmd_list, idx, results, poutcome, log, spawned >>
    /\ UNCHANGED << pc, args, command, answer, err, outcome, created >>
    /\ UNCHANGED procVars
    /\ UNCHANGED callerVars

\* mutant of ParWait: the process is not waited for
ParWaitNoBlock ==
    /\ ppc = "collect"
    /\ idx <= Len(procs)
    /\ procs' = [procs EXCEPT ![idx].returncode = Some(procs[idx].code)]
    /\ ppc' = "read"
    /\ UNCHANGED << cmd_list, idx, results, poutcome, log, spawned >>
    /\ UNCHANGED << pc, args, command, answer, err, outcome, created >>
    /\ UNCHANGED procVars
    /\ UNCHANGED callerVars

\* for _proc in _proc_list: _proc.wait() -- blocks until that process has exited
ParWait ==
    /\ ppc = "collect"
    /\ idx <= Len(procs)
    /\ procs[idx].state = "exited"
    /\ procs' = [procs EXCEPT ![idx].returncode = Some(procs[idx].code)]
    /\ ppc' = "read"
    /\ UNCHANGED << cmd_list, idx, results, poutcome, log, spawned >>
    /\ UNCHANGED << pc, args, command, answer, err, outcome, created >>
    /\ UNCHANGED procVars
    /\ UNCHANGED callerVars

\* mutant of Collected: the newest result is put first
CollectedFirst(rs, r) == << r >> \o rs

\* results.append(CmdExecutorParallelAnswer(**proc_data))
Collected(rs, r) == Append(rs, r)

\* the four logger.debug calls made for a collected process
ParReadLog(p, so, se) ==
    << LogEntry("debug", "PID done", None, << >>, << >>),
       LogEntry("debug", "EXITCODE", None, << >>, << >>),
       LogEntry("debug", "STDOUT", None, so, << >>),
       LogEntry("debug", "STDERR", None, se, << >>) >>

\* mutant of ParRead: a non-zero exit code ends the batch
ParReadFailFast ==
    /\ ppc = "read"
    /\ LET p == procs[idx]
           stdout == p.out_pipe
           stderr == p.err_pipe
       IN /\ results' = Collected(results,
                 CmdExecutorParallelAnswer(p.pid,
                     CmdExecutorAnswer(p.returncode[1], PlainList(p.argv),
                                       stdout, stderr)))
          /\ log' = log \o ParReadLog(p, stdout, stderr)
          /\ IF p.returncode[1] # 0
             THEN /\ poutcome' = PRaised(CmdExecutorAnswerResultError(
                         CmdExecutorAnswer(p.returncode[1], PlainList(p.argv),
                                           stdout, stderr), ""))
                  /\ ppc' = "done"
             ELSE /\ ppc' = "collect"
                  /\ UNCHANGED poutcome
    /\ procs' = [procs EXCEPT ![idx].out_pipe = << >>, ![idx].err_pipe = << >>]
    /\ idx' = idx + 1
    /\ UNCHANGED << cmd_list, spawned >>
    /\ UNCHANGED << pc, args, command, answer, err, outcome, created >>
    /\ UNCHANGED procVars
    /\ UNCHANGED callerVars

\* _stdout = _proc.stdout.read().decode("utf-8"); _stderr = ...; proc_data =
\* {"pid": _proc.pid, "result": CmdExecutorAnswer(_proc.returncode, _proc.args,
\* _stdout, _stderr)}; four logger.debug calls; results.append(...)
\* (the process has exited: each read takes all that is in the pipe)
ParRead ==
    /\ ppc = "read"
    /\ LET p == procs[idx]
           stdout == p.out_pipe
           stderr == p.err_pipe
       IN /\ results' = Collected(results,
                 CmdExecutorParallelAnswer(p.pid,
                     CmdExecutorAnswer(p.returncode[1], PlainList(p.argv),
                                       stdout, stderr)))
          /\ log' = log \o ParReadLog(p, stdout, stderr)
    /\ procs' = [procs EXCEPT ![idx].out_pipe = << >>, ![idx].err_pipe = << >>]
    /\ idx' = idx + 1
    /\ ppc' = "collect"
    /\ UNCHANGED << cmd_list, poutcome, spawned >>
    /\ UNCHANGED << pc, args, command, answer, err, outcome, created >>
    /\ UNCHANGED procVars
    /\ UNCHANGED callerVars

\* return results
ParReturn ==
    /\ ppc = "collect"
    /\ idx > Len(procs)
    /\ poutcome' = PReturned
    /\ ppc' = "done"
    /\ UNCHANGED << cmd_list, procs, idx, results, log, spawned >>
    /\ UNCHANGED << pc, args, command, answer, err, outcome, created >>
    /\ UNCHANGED procVars
    /\ UNCHANGED callerVars

\* the caller validates the returned entries one by one, in order:
\* CmdExecutor.check_result(entry.result)
CheckEntry ==
    /\ ppc = "done"
    /\ poutcome.kind = "returned"
    /\ Len(checked) < Len(results)
    /\ LET a == results[Len(checked) + 1].result
       IN /\ checked' = Append(checked, CheckResult(a))
          /\ log' = log \o CheckResultLog(a)
    /\ UNCHANGED << ppc, cmd_list, procs, idx, results, poutcome, spawned >>
    /\ UNCHANGED << pc, args, command, answer, err, outcome, created >>
    /\ UNCHANGED procVars

NextPar ==
    \/ \E cl \in Batches : RunParallelyCmds(cl)
    \/ ParPrepare
    \/ ParLog
    \/ \E ok \in BOOLEAN, pid \in Pids, prog \in Programs : ParPopen(ok, pid, prog)
    \/ \E j \in 1..MaxBatch : BatchWriteOut(j)
    \/ \E j \in 1..MaxBatch : BatchWriteErr(j)
    \/ \E j \in 1..MaxBatch : BatchExit(j)
    \/ ParWait
    \/ ParRead
    \/ ParReturn
    \/ CheckEntry

SpecPar == Init /\ [][NextPar]_vars

\* ------------------------------------------------ run_parallely_cmds: properties

PDone == ppc = "done"
PReturnedResults == PDone /\ poutcome.kind = "returned"

\* entry i of results is about process i of the batch: its pid, its exit
\* status, all it wrote to stdout and all it wrote to stderr
EntryIsOf(i) ==
    /\ results[i].pid = procs[i].pid
    /\ results[i].result.exit_code = procs[i].code
    /\ results[i].result.stdout = procs[i].out_written
    /\ results[i].result.stderr = procs[i].err_written

\* C6: for a batch of n non-empty commands, whatever the order in which the
\* processes complete, run_parallely_cmds returns exactly n entries; entry i is
\* about the process launched for input command i (its pid, exit code, stdout
\* and stderr), and the pids are distinct.
C6_ResultsInInputOrder ==
    PReturnedResults =>
        /\ Len(results) = Len(cmd_list)
        /\ Len(procs) = Len(cmd_list)
        /\ \A i \in 1..Len(cmd_list) :
               /\ procs[i].argv = execf(cmd_list[i])
               /\ EntryIsOf(i)
        /\ \A i, j \in 1..Len(results) : i # j => results[i].pid # results[j].pid

\* the second process completed first and got the smaller pid
C6_Witness ==
    /\ PReturnedResults
    /\ Len(cmd_list) = 2
    /\ procs[2].rank < procs[1].rank
    /\ procs[2].pid < procs[1].pid
    /\ procs[1].code # procs[2].code
    /\ cmd_list[1] # cmd_list[2]
    /\ EntryIsOf(1) /\ EntryIsOf(2)

\* C7: if some command of the batch is empty, at whatever position,
\* run_parallely_cmds raises ValueError and no process of the batch has been
\* spawned (nor is one spawned afterwards).
C7_EmptyCommandFailsBatchBeforeSpawn ==
    ((\E i \in 1..Len(cmd_list) : cmd_list[i] \in EmptyCmds)
        /\ ppc \notin { "idle", "prepare" }) =>
        /\ PDone
        /\ poutcome = PRaised(Exc("ValueError"))
        /\ procs = << >>
        /\ spawned = 0

C7_Witness ==
    /\ PDone
    /\ Len(cmd_list) = 2
    /\ cmd_list[1] \notin EmptyCmds
    /\ cmd_list[2] = ListCmd(<< >>)
    /\ poutcome = PRaised(Exc("ValueError"))

\* C8: a non-zero exit of one process does not end the batch and does not
\* change a sibling's entry: once the batch is launched run_parallely_cmds
\* raises nothing, a collected non-zero exit code leaves the loop going, and
\* when it returns every launched process has been waited for and every entry
\* holds its own process's exit code and output.
C8_NonZeroExitDoesNotAffectSiblings ==
    /\ (poutcome.kind = "raised") =>
           /\ results = << >>
           /\ Len(procs) < Len(cmd_list)
           /\ poutcome.exc[1].type \in { "ValueError", "OSError" }
    /\ (PReturnedResults /\ \E k \in 1..Len(procs) : procs[k].code # 0) =>
           /\ Len(results) = Len(procs)
           /\ \A i \in 1..Len(procs) :
                  /\ procs[i].returncode = Some(procs[i].code)
                  /\ EntryIsOf(i)

\* the first process failed, the second one did not and has its own output
C8_Witness ==
    /\ PReturnedResults
    /\ Len(procs) = 2
    /\ results[1].result.exit_code = 7
    /\ results[1].result.stderr = << "b" >>
    /\ results[2].result.exit_code = 0
    /\ results[2].result.stdout = << "a" >>
    /\ results[2].result.stderr = << >>

\* ------------------------------------------------- run_cmd: further properties

\* the logger call made for the command before dispatch
RunCommandEntry ==
    LogEntry("info", "Run command", Some(ListCmd(execf(args.cmd))), << >>, << >>)

\* C11: with hidden_command set, no logger call of run_cmd shows the real
\* command (the info call is skipped, the debug calls of the validation show
\* the placeholder) and a CmdExecutorAnswerResultError raised by run_cmd holds
\* the placeholder; with hidden_command unset, the tokenized command is the
\* first thing logged, at info level, before the process is spawned.
C11_HiddenCommandIsNotShown ==
    /\ args.hidden_command =>
           /\ \A i \in 1..Len(log) : log[i].cmd \in { None, Some(HiddenCommand) }
           /\ RaisedExecutionError =>
                  /\ outcome.exc[1].info[1].command = HiddenCommand
                  /\ outcome.exc[1].info[1].answer.command = HiddenCommand
           /\ (err # None /\ err[1].info # None) =>
                  err[1].info[1].command = HiddenCommand
    /\ (~args.hidden_command /\ command # None /\ pc # "log_command") =>
           /\ log # << >>
           /\ log[1] = RunCommandEntry
    /\ (~args.hidden_command /\ spawned > 0) =>
           \E i \in 1..Len(log) : log[i] = RunCommandEntry

C11_Witness ==
    /\ Done /\ args.hidden_command /\ args.check_result
    /\ RaisedExecutionError
    /\ \E i \in 1..Len(log) :
           log[i].tag = "answer.command" /\ log[i].cmd = Some(HiddenCommand)

\* ------------------------------------------------------------- check_result

\* the results a caller may hand to check_result: any exit code, a _Command
\* (as given, or the placeholder), any captured texts
AnswerInputs ==
    { CmdExecutorAnswer(code, c, so, se) :
        code \in ExitCodes,
        c \in { x \in RawCmds : ~IsEmpty(x) } \cup { HiddenCommand },
        so \in Texts, se \in Texts }

\* a caller holds a result and is about to call check_result on it
InitCheck ==
    /\ pc = "caller"
    /\ answer \in { Some(a) : a \in AnswerInputs }
    /\ args = NoArgs
    /\ command = None
    /\ err = None
    /\ outcome = NoOutcome
    /\ log = << >>
    /\ spawned = 0
    /\ created = 0
    /\ proc = NoProc
    /\ returncode = None
    /\ buf = << >>
    /\ out = << >>
    /\ ppc = "idle"
    /\ cmd_list = << >>
    /\ procs = << >>
    /\ idx = 1
    /\ results = << >>
    /\ poutcome = [kind |-> "none", exc |-> None]
    /\ checked = << >>

\* the caller calls CmdExecutor.check_result(answer) (once more)
CallCheckResult ==
    /\ pc = "caller"
    /\ Len(checked) < MaxChecks
    /\ LET raised == CheckResult(answer[1])
       IN /\ checked' = Append(checked, raised)
          /\ created' = IF raised # None /\ raised[1].info # None
                        THEN created + 1 ELSE created
    /\ log' = log \o CheckResultLog(answer[1])
    /\ UNCHANGED << pc, args, command, answer, err, outcome, spawned >>
    /\ UNCHANGED procVars
    /\ UNCHANGED parVars

NextCheck == CallCheckResult

SpecCheck == InitCheck /\ [][NextCheck]_vars

\* what the k-th call of check_result on the held result did is what the
\* contract says: it raised iff the exit code is not zero, and then an error
\* with the fields of the result, which it wraps
CheckedAsContract(k) ==
    /\ (checked[k] # None) <=> (answer[1].exit_code # 0)
    /\ checked[k] # None =>
           /\ checked[k][1].type = "CmdExecutorAnswerResultError"
           /\ checked[k][1].info # None
           /\ checked[k][1].info[1].exit_code = answer[1].exit_code
           /\ checked[k][1].info[1].command = answer[1].command
           /\ checked[k][1].info[1].stdout = answer[1].stdout
           /\ checked[k][1].info[1].stderr = answer[1].stderr
           /\ checked[k][1].info[1].answer = answer[1]

\* C12: check_result(result) raises CmdExecutorAnswerResultError iff
\* result.exit_code is not zero; it leaves the result as it is; repeated calls
\* on the same result all end the same way (none raises for a passing result,
\* each raises an error with the same fields for a failing one).
C12_CheckResultIffNonZeroAndIdempotent ==
    /\ [](pc = "caller" =>
            /\ \A k \in 1..Len(checked) : CheckedAsContract(k)
            /\ \A j, k \in 1..Len(checked) : checked[j] = checked[k])
    /\ [][pc = "caller" => answer' = answer]_vars

C12_Witness ==
    /\ pc = "caller"
    /\ Len(checked) >= 2
    /\ answer[1].exit_code = 7
    /\ answer[1].stdout # answer[1].stderr
    /\ checked[1] # None
    /\ checked[2] = checked[1]

\* --------------------------------------- run_parallely_cmds: order of events

\* nothing of process j has been waited for or read
Untouched(j) ==
    /\ procs[j].returncode = None
    /\ procs[j].out_pipe = procs[j].out_written
    /\ procs[j].err_pipe = procs[j].err_written

\* C13: every process of the batch is launched before any process is waited
\* for or read: while launches remain nothing has been waited for, read or
\* collected, and waiting, reading and collecting happen only with the whole
\* batch launched.
C13_AllLaunchedBeforeAnyWait ==
    /\ ppc = "launch" =>
           /\ idx = 1
           /\ results = << >>
           /\ \A j \in 1..Len(procs) : Untouched(j)
    /\ (\/ ppc \in { "collect", "read" }
        \/ results # << >>
        \/ \E j \in 1..Len(procs) : ~Untouched(j)) =>
           Len(procs) = Len(cmd_list)

\* the first process has already exited, and is left alone while the second
\* one is still to be launched
C13_Witness ==
    /\ ppc = "launch"
    /\ Len(cmd_list) = 2
    /\ Len(procs) = 1
    /\ procs[1].state = "exited"
    /\ procs[1].out_written # << >>
    /\ Untouched(1)

\* process j has exited, has been waited for, and has been read and collected
CollectedProc(j, rs) ==
    /\ procs[j].state = "exited"
    /\ procs[j].returncode # None
    /\ j <= Len(rs)
    /\ rs[j].pid = procs[j].pid

\* C14: collection is strictly in launch order: a step that reads the pipes of
\* a process reads those of the next process in launch order only, collects
\* it, and happens only when that process has exited and been waited for and
\* every process launched before it has exited and been collected.
C14_CollectionInLaunchOrder ==
    [][ /\ \A i \in 1..Len(procs) :
              (\/ Len(procs'[i].out_pipe) < Len(procs[i].out_pipe)
               \/ Len(procs'[i].err_pipe) < Len(procs[i].err_pipe)) =>
                  (i = Len(results) + 1 /\ results' # results)
        /\ results' # results =>
              LET i == Len(results')
              IN /\ i = Len(results) + 1
                 /\ i <= Len(procs)
                 /\ CollectedProc(i, results')
                 /\ \A j \in 1..(i - 1) : CollectedProc(j, results)
      ]_vars

\* the second process finished first, with output, and was collected second
C14_Witness ==
    /\ ppc = "collect"
    /\ Len(results) = 2
    /\ procs[2].rank = 1
    /\ procs[1].rank = 2
    /\ procs[2].out_written # << >>
    /\ results[2].result.stdout = procs[2].out_written

\* ------------------------------------------------------ call mode: termination

\* a step of the executor's own thread, which runs whenever it is not blocked
\* in a read
ExecutorStep ==
    \/ PrepareCommand
    \/ LogCommand
    \/ InvokeCall
    \/ \E ok \in BOOLEAN : Popen(ok)
    \/ WhileSelect
    \/ ReadlineFill
    \/ Readline
    \/ Poll
    \/ Drain
    \/ \E ok \in BOOLEAN, code \in ExitCodes, so \in Texts, se \in Texts :
          InvokeRun(ok, code, so, se)
    \/ Validate
    \/ Except
    \/ Return

\* run_cmd with its thread scheduled fairly; nothing is assumed of the process
\* and its descendants
SpecRunFair == SpecRun /\ WF_vars(ExecutorStep)

\* run_cmd in call mode does not get past the polling loop while the process
\* it launched is running
NotPastLoopWhileRunning ==
    (args.call /\ proc.state = "running") => pc \in { "loop", "readline", "poll" }

\* C15 (as claimed): in call mode, once the launched process has exited the
\* polling loop ends, the final read completes and run_cmd ends; and run_cmd
\* does not end while the process is running.
C15_ReturnsOnceProcessExited ==
    /\ []NotPastLoopWhileRunning
    /\ (args.call /\ proc.state = "exited") ~> Done

\* C15 (amended): in call mode, once the launched process has exited and the
\* write end of its output pipe is closed (no descendant holds it), the polling
\* loop ends, the final read completes and run_cmd ends; and run_cmd does not
\* end while the process is running.
C15_ReturnsOnceExitedAndPipeClosed ==
    /\ []NotPastLoopWhileRunning
    /\ (args.call /\ proc.state = "exited" /\ ~proc.open) ~> Done

\* run_cmd has returned; the launched process had exited leaving its output
\* to a descendant, which wrote and then closed it
C15_Witness ==
    /\ Done /\ args.call
    /\ proc.state = "exited" /\ ~proc.open
    /\ outcome.kind = "returned"
    /\ outcome.value[1].stdout = proc.written
    /\ Len(proc.written) >= 2

\* ------------------------------------------------------ call mode: live output

IsOutputEntry(e) == e.tag \in { "line", "remaining" }

\* C16: in call mode with call_log set, the step that appends a piece of output
\* to out makes exactly one logger.info call for that piece (a line without its
\* newline, the final rest as it is), after the calls made for earlier pieces,
\* and no other step logs output; with call_log unset no output is logged; in
\* both cases the stdout of the answer is all that was written.
C16_LiveOutputLoggedOncePerPiece ==
    /\ [][ args.call =>
             /\ out' # out =>
                   LET piece == SubSeq(out', Len(out) + 1, Len(out'))
                   IN /\ out' = out \o piece
                      /\ IF args.call_log
                         THEN /\ Len(log') = Len(log) + 1
                              /\ SubSeq(log', 1, Len(log)) = log
                              /\ IsOutputEntry(log'[Len(log')])
                              /\ log'[Len(log')].level = "info"
                              /\ log'[Len(log')].text =
                                    IF log'[Len(log')].tag = "line"
                                    THEN StripNL(piece) ELSE piece
                         ELSE log' = log
             /\ out' = out =>
                   \A i \in (Len(log) + 1)..Len(log') : ~IsOutputEntry(log'[i])
         ]_vars
    /\ [](~args.call_log => \A i \in 1..Len(log) : ~IsOutputEntry(log[i]))
    /\ []((args.call /\ pc = "validate") => answer[1].stdout = proc.written)

\* two lines were logged one after the other as they were read
C16_Witness ==
    /\ pc = "validate" /\ args.call /\ args.call_log
    /\ proc.written = << "a", NL, NL >>
    /\ \E i \in 1..Len(log) :
           /\ i < Len(log)
           /\ log[i].tag = "line" /\ log[i].text = << "a" >>
           /\ log[i + 1].tag = "line" /\ log[i + 1].text = << >>
    /\ answer[1].stdout = proc.written

\* ------------------------------------------------------ run_cmd: propagation

\* C17 (as claimed): a call with check_result=True whose process exited with a
\* non-zero code constructs exactly one CmdExecutorAnswerResultError, which
\* reaches the caller as raised, not caught and wrapped in another one; and no
\* call spawns more than one process.
C17_OneErrorRaisedOnce ==
    /\ spawned <= 1
    /\ (Done /\ args.check_result /\ ProcessExited /\ proc.exitcode # 0) =>
           /\ RaisedExecutionError
           /\ created = 1
           /\ outcome.exc[1].cause = ""

\* ------------------------------------- run_parallely_cmds: further properties

\* C18 (as claimed): every entry run_parallely_cmds returns holds a result
\* whose command is a _Command, so that check_result applied to the entry's
\* result returns normally when its exit code is 0 and raises
\* CmdExecutorAnswerResultError, and nothing else, when it is not.
C18_EntriesCanBeChecked ==
    PReturnedResults =>
        /\ \A k \in 1..Len(results) :
               results[k].result.command.tag \in { "str", "list" }
        /\ \A k \in 1..Len(checked) :
               IF results[k].result.exit_code = 0
               THEN checked[k] = None
               ELSE /\ checked[k] # None
                    /\ checked[k][1].type = "CmdExecutorAnswerResultError"

\* a step of the thread executing run_parallely_cmds, which runs whenever it
\* is not blocked in a wait
ParExecutorStep ==
    \/ ParPrepare
    \/ ParLog
    \/ \E ok \in BOOLEAN, pid \in Pids, prog \in Programs : ParPopen(ok, pid, prog)
    \/ ParWait
    \/ ParRead
    \/ ParReturn

\* run_parallely_cmds with its thread scheduled fairly, and every process of
\* the batch running on whenever it is not blocked writing to a full pipe
SpecParFair ==
    /\ SpecPar
    /\ WF_vars(ParExecutorStep)
    /\ \A j \in 1..MaxBatch :
           WF_vars(BatchWriteOut(j) \/ BatchWriteErr(j) \/ BatchExit(j))

\* C19 (as claimed): once the batch is launched run_parallely_cmds eventually
\* returns, each process being one that exits once its output is consumed:
\* waiting for a process before reading its pipes does not block forever,
\* whatever it writes relative to the capacity of a pipe.
C19_BatchEventuallyReturns ==
    (ppc = "collect") ~> PDone

\* C20 (as claimed): when run_parallely_cmds has returned or failed, every
\* process it launched has exited, been waited for and had its output read;
\* none is left behind when a later spawn fails.
C20_NoProcessLeftBehind ==
    PDone =>
        \A j \in 1..Len(procs) :
            /\ procs[j].state = "exited"
            /\ procs[j].returncode # None
            /\ procs[j].out_pipe = << >> /\ procs[j].err_pipe = << >>
            /\ j <= Len(results)

====
